---- MODULE Spec2Model ----
(***************************************************************************)
(* Doubt-session chat core of the LMS backend: the doubt controller        *)
(* (initiateDoubtSession, getDoubtSessionMessages, sendDoubtMessage,       *)
(* closeDoubtSession and the simulated AI responder timers), the           *)
(* isParticipantInDoubtSession guard and the mongoose documents they       *)
(* read and write.                                                         *)
(*                                                                         *)
(* Every request is a process.  One step of a process is: the storage      *)
(* operation it awaits lands, then its continuation runs up to the next    *)
(* await.  A mongoose document held by a process is an in-memory copy;     *)
(* save() writes only the paths whose value was changed in that copy.      *)
(* A request that is answered before its first write changes nothing: it   *)
(* is a stuttering step, and its status code is the value of the handler's *)
(* Check operator in that state.                                           *)
(*                                                                         *)
(* Two further parts share the module: trainer attendance (mark, request,  *)
(* verify and review, AttendanceSpec) and assignSessions (AssignSpec).     *)
(* Their handlers are processes of the same kind, kept in handlers.        *)
(***************************************************************************)
EXTENDS Integers, Sequences, FiniteSets, TLC

\* ---------------------------------------------------------------- bounds
MaxSessions == 1    \* doubt sessions initiated
MaxUserMsgs == 2    \* messages written by users, initial messages included
MaxInFlight == 2    \* requests in flight at once (responder timers not counted)
MaxFaults == 1      \* storage faults injected into responder runs
MaxDays == 2        \* days attendance is kept for
MaxCalls == 3       \* assignSessions requests accepted

\* ------------------------------------------------------- static directory
NULL == "null"

Users == {"s1", "s2", "t1", "a1"}

Role(u) ==
    CASE u = "s1" -> "student"
      [] u = "s2" -> "student"
      [] u = "t1" -> "trainer"
      [] OTHER    -> "admin"

\* student.school: the school name stored in the user profile
SchoolOf(u) ==
    CASE u = "s1" -> "GreenView"
      [] u = "s2" -> "Lakeside"
      [] OTHER    -> NULL

\* School.findOne({schoolName}): the school records that exist
SchoolRecords == {"GreenView"}

\* Session.findOne({'sessions._id': sessionId}): the topics that exist
Topics == {"topic1"}

\* request inputs
InitiateInputs ==
    { [doubtType |-> "trainer", trainerId |-> "t1", sessionId |-> "topic1", text |-> "q", att |-> NULL],
      [doubtType |-> "trainer", trainerId |-> "t1", sessionId |-> "topic1", text |-> "q", att |-> "url"],
      [doubtType |-> "ai", trainerId |-> NULL, sessionId |-> NULL, text |-> "q", att |-> NULL],
      [doubtType |-> "ai", trainerId |-> "t1", sessionId |-> "topic1", text |-> "q", att |-> NULL],
      [doubtType |-> "ai", trainerId |-> "t1", sessionId |-> "topic1", text |-> "q", att |-> "url"],
      [doubtType |-> "", trainerId |-> "t1", sessionId |-> "topic1", text |-> "q", att |-> NULL],
      [doubtType |-> "ai", trainerId |-> NULL, sessionId |-> NULL, text |-> "", att |-> NULL],
      [doubtType |-> "trainer", trainerId |-> NULL, sessionId |-> "topic1", text |-> "q", att |-> NULL],
      [doubtType |-> "trainer", trainerId |-> "t1", sessionId |-> NULL, text |-> "q", att |-> NULL],
      [doubtType |-> "trainer", trainerId |-> "s2", sessionId |-> "topic1", text |-> "q", att |-> NULL],
      [doubtType |-> "trainer", trainerId |-> "t1", sessionId |-> "topic9", text |-> "q", att |-> NULL],
      [doubtType |-> "quiz", trainerId |-> NULL, sessionId |-> NULL, text |-> "q", att |-> NULL] }

Texts == {"", "q"}
Attachments == {NULL, "url"}

VARIABLES
    sessions,   \* DoubtSession collection, _id = index
    messages,   \* ChatMessage collection, in insertion order
    procs,      \* requests in flight and responder timers
    now,        \* the clock read by new Date()
    faults,     \* storage faults injected so far
    out,        \* what the last step did: response, events, status write, message stored
    lim,        \* the bounds of the run (fixed by Init)
    attendance,         \* TrainerAttendance collection, by trainer and day
    attendanceRequests, \* TrainerAttendanceRequest collection, by trainer and day
    assignedSessions,   \* AssignedSession collection of one school, grade and month
    calls,              \* the assignSessions requests accepted so far, in order
    handlers            \* attendance and assignment requests in flight

\* the collections of the doubt chat, and those of attendance and assignment
doubt == <<sessions, messages, procs, now, faults, lim>>
office == <<attendance, attendanceRequests, assignedSessions, calls, handlers>>

vars == <<sessions, messages, procs, now, faults, out, lim, office>>

NoResp == [op |-> "none", user |-> NULL, sid |-> 0, code |-> 0]
Resp(op, u, sid, code) == [op |-> op, user |-> u, sid |-> sid, code |-> code]

NewChatMessage(sid, sender, senderRole, text, att, at) ==
    [doubtSession |-> sid, sender |-> sender, senderRole |-> senderRole,
     messageText |-> text, attachmentUrl |-> att, createdAt |-> at]

NoMsg == NewChatMessage(0, NULL, NULL, "", NULL, 0)

\* a status write: the stored status before and after, and the save that made it
\* and the status its document was loaded with
NoWrite == [sid |-> 0, from |-> "none", to |-> "none", pc |-> "none", op |-> "none",
            id |-> 0, loaded |-> "none"]
Write(sid, from, to, p) ==
    [sid |-> sid, from |-> from, to |-> to, pc |-> p.pc, op |-> p.op, id |-> p.id,
     loaded |-> p.orig]

\* the awaited operation that threw in the last step: where the request
\* stood and the ChatMessage it had built
NoThrown == [pc |-> "none", sid |-> 0, msg |-> NoMsg]
Thrown(p) == [pc |-> p.pc, sid |-> p.sid, msg |-> p.msg]

NoOut == [resp |-> NoResp, emits |-> <<>>, write |-> NoWrite, saved |-> NoMsg,
          thrown |-> NoThrown]

\* ------------------------------------------------------------ pure helpers
Truthy(s) == s # "" /\ s # NULL

RECURSIVE InsertByCreatedAt(_, _)
InsertByCreatedAt(m, s) ==
    IF s = <<>> THEN <<m>>
    ELSE IF m.createdAt < Head(s).createdAt THEN <<m>> \o s
    ELSE <<Head(s)>> \o InsertByCreatedAt(m, Tail(s))

RECURSIVE SortByCreatedAt(_)
\* .sort('createdAt')
SortByCreatedAt(s) ==
    IF s = <<>> THEN <<>>
    ELSE InsertByCreatedAt(s[Len(s)], SortByCreatedAt(SubSeq(s, 1, Len(s) - 1)))

MessagesOf(sid) == SelectSeq(messages, LAMBDA m : m.doubtSession = sid)

\* variant: the history in the order the messages were stored
FindMessagesUnsorted(sid) == MessagesOf(sid)

\* ChatMessage.find({doubtSession}).sort('createdAt')
FindMessages(sid) == SortByCreatedAt(MessagesOf(sid))

Exists(sid) == sid \in 1..Len(sessions)

\* variant: every new document starts pending, whatever its type
InitialStatusPending(doubtType) == "pending"

\* the status an initiation gives the new document
InitialStatus(doubtType) == IF doubtType = "trainer" THEN "pending" ELSE "in_progress"

\* variant: any trainer counts as a participant, assigned or not
IsParticipantAnyTrainer(doc, u) == doc.student = u \/ Role(u) = "trainer"

\* doubtSession.student.equals(userId) || doubtSession.trainer.equals(userId)
IsParticipant(doc, u) ==
    \/ doc.student = u
    \/ (doc.trainer # NULL /\ doc.trainer = u)

\* sendDoubtMessage: the statuses that take the reopen-or-reject branch
SendBlocked(status) == status \in {"resolved", "closed", "cancelled"}

\* sendDoubtMessage: who passes the reopen-or-reject branch by reopening
CanReopen(doubtType, role) == doubtType = "ai" /\ role = "student"

\* variant: a close is refused in the terminal statuses only
CloseBlockedTerminalOnly(status) == status \in {"closed", "cancelled"}

\* closeDoubtSession: the statuses a close is refused in
CloseBlocked(status) == status \in {"closed", "resolved", "cancelled"}

\* variant: the responder leaves the session in_progress
ResponderStatusInProgress == "in_progress"

\* the status the responder writes once its answer is stored
ResponderStatus == "resolved"

\* variant: a save that writes lastMessageAt and drops the status change
SaveDocTimestampOnly(db, p) ==
    [db EXCEPT !.lastMessageAt = IF p.lma # 0 THEN p.lma ELSE @]

\* variant: a save that writes the status held in memory, modified or not
SaveDocWholeDocument(db, p) ==
    [db EXCEPT !.status = p.status,
               !.lastMessageAt = IF p.lma # 0 THEN p.lma ELSE @]

\* variant: a save that is dropped when the stored status is no longer the
\* one the document was loaded with
SaveDocIfUnchanged(db, p) ==
    IF db.status # p.orig THEN db
    ELSE [db EXCEPT !.status = IF p.status # p.orig THEN p.status ELSE @,
                    !.lastMessageAt = IF p.lma # 0 THEN p.lma ELSE @]

\* document.save() of a loaded document: only the modified paths are written
\* (lma = 0: lastMessageAt was not assigned since the last load or save)
SaveDoc(db, p) ==
    [db EXCEPT !.status = IF p.status # p.orig THEN p.status ELSE @,
               !.lastMessageAt = IF p.lma # 0 THEN p.lma ELSE @]

\* ------------------------------------------------------------ processes
\* a request or responder run: its position, the document it holds in memory
\* (doubtType .. lma) and the ChatMessage it is saving
Proc(id, op, u, sid, pc, doc, msg) ==
    [id |-> id, op |-> op, user |-> u, sid |-> sid, pc |-> pc,
     doubtType |-> doc.doubtType, student |-> doc.student, trainer |-> doc.trainer,
     topic |-> doc.session, text |-> doc.initialDoubtText,
     status |-> doc.status, orig |-> doc.orig, lma |-> doc.lma, msg |-> msg]

RequestPcs == {"newSessSave", "initMsgSave", "reopenSave", "msgSave", "sessSave",
               "populate", "history", "closeSave"}
ResponderPcs == {"timerWait", "aiMsgSave", "aiSessSave", "errMsgSave", "cancelSave"}

\* messages written or about to be written by users (initial messages included)
UserMsgCount ==
    Cardinality({k \in 1..Len(messages) : messages[k].senderRole \in {"student", "trainer"}})
    + Cardinality({p \in procs : p.pc \in {"newSessSave", "initMsgSave", "reopenSave", "msgSave"}})

SessionCount ==
    Len(sessions) + Cardinality({p \in procs : p.pc = "newSessSave"})

CanAccept == Cardinality({p \in procs : p.pc \in RequestPcs}) < lim.inflight

Limits(s, m, f, x, atts) ==
    [sessions |-> s, msgs |-> m, inflight |-> f, faults |-> x, atts |-> atts]

\* ------------------------------------------- attendance and assignment
\* the days attendance is kept for, and the trainers it is kept of
Days == 1..MaxDays
Keys == {"t1"} \X Days

\* no TrainerAttendance / TrainerAttendanceRequest document for a key
NoAttendance == [status |-> "none", adminRemarks |-> "none"]
NoRequest == [requestType |-> "none", status |-> "none"]

\* empty collections and no attendance or assignment request in flight
OfficeInit ==
    /\ attendance = [k \in Keys |-> NoAttendance]
    /\ attendanceRequests = [k \in Keys |-> NoRequest]
    /\ assignedSessions = {}
    /\ calls = <<>>
    /\ handlers = {}

InitWith(l) ==
    /\ sessions = <<>>
    /\ messages = <<>>
    /\ procs = {}
    /\ now = 1
    /\ faults = 0
    /\ out = NoOut
    /\ lim = l
    /\ OfficeInit

Init == InitWith(Limits(MaxSessions, MaxUserMsgs, MaxInFlight, MaxFaults, {NULL}))

\* a request answered at once: nothing is stored, emitted or scheduled
Reject == UNCHANGED vars

\* ------------------------------------------------- initiateDoubtSession
\* variant: the school name of the profile is not looked up
InitiateCheckNoSchoolLookup(u, in) ==
    IF Role(u) # "student" THEN 403
    ELSE IF ~Truthy(in.doubtType) \/ ~Truthy(in.text) THEN 400
    ELSE IF ~Truthy(SchoolOf(u)) THEN 400
    ELSE IF in.doubtType = "trainer" THEN
        IF ~Truthy(in.trainerId) \/ ~Truthy(in.sessionId) THEN 400
        ELSE IF in.trainerId \notin Users \/ Role(in.trainerId) # "trainer" THEN 400
        ELSE IF in.sessionId \notin Topics THEN 400
        ELSE 0
    ELSE IF in.doubtType = "ai" THEN 0
    ELSE 400

\* the checks before anything is stored; 0 when all pass
InitiateCheck(u, in) ==
    IF Role(u) # "student" THEN 403
    ELSE IF ~Truthy(in.doubtType) \/ ~Truthy(in.text) THEN 400
    ELSE IF ~Truthy(SchoolOf(u)) THEN 400
    ELSE IF SchoolOf(u) \notin SchoolRecords THEN 400
    ELSE IF in.doubtType = "trainer" THEN
        IF ~Truthy(in.trainerId) \/ ~Truthy(in.sessionId) THEN 400
        ELSE IF in.trainerId \notin Users \/ Role(in.trainerId) # "trainer" THEN 400
        ELSE IF in.sessionId \notin Topics THEN 400
        ELSE 0
    ELSE IF in.doubtType = "ai" THEN 0
    ELSE 400

\* variant: the trainer and the topic of the request body are stored for
\* either type of doubt
NewDoubtSessionWithBody(u, in, at) ==
    [doubtType |-> in.doubtType, student |-> u,
     trainer |-> in.trainerId, session |-> in.sessionId,
     initialDoubtText |-> in.text,
     status |-> InitialStatus(in.doubtType),
     orig |-> InitialStatus(in.doubtType), lma |-> at]

\* new DoubtSession({...}): the trainer branch stores trainer and topic, the
\* ai branch leaves both unset
NewDoubtSession(u, in, at) ==
    [doubtType |-> in.doubtType, student |-> u,
     trainer |-> IF in.doubtType = "trainer" THEN in.trainerId ELSE NULL,
     session |-> IF in.doubtType = "trainer" THEN in.sessionId ELSE NULL,
     initialDoubtText |-> in.text,
     status |-> InitialStatus(in.doubtType),
     orig |-> InitialStatus(in.doubtType), lma |-> at]

InitiateDoubtSession(u, in) ==
    IF InitiateCheck(u, in) # 0 THEN Reject
    ELSE
        /\ CanAccept
        /\ SessionCount < lim.sessions
        /\ UserMsgCount < lim.msgs
        /\ LET doc == NewDoubtSession(u, in, now)
               msg == NewChatMessage(0, u, "student", in.text, in.att, 0)
           IN procs' = procs \cup {Proc(now, "initiate", u, 0, "newSessSave", doc, msg)}
        /\ now' = now + 1
        /\ out' = NoOut
        /\ UNCHANGED <<sessions, messages, faults, lim, office>>

\* doubtSession.save() lands; the initial ChatMessage is built and saved
InitiateSessionSaved(p) ==
    /\ p.pc = "newSessSave"
    /\ LET sid == Len(sessions) + 1 IN
       /\ sessions' = Append(sessions,
                [student |-> p.student, trainer |-> p.trainer, session |-> p.topic,
                 initialDoubtText |-> p.text,
                 doubtType |-> p.doubtType, status |-> p.status,
                 lastMessageAt |-> p.lma])
       /\ procs' = (procs \ {p}) \cup
                   {[p EXCEPT !.sid = sid, !.pc = "initMsgSave", !.lma = 0,
                              !.msg.doubtSession = sid, !.msg.createdAt = now]}
       /\ out' = [NoOut EXCEPT !.write = Write(sid, "none", p.status, p)]
    /\ now' = now + 1
    /\ UNCHANGED <<messages, faults, lim, office>>

\* variant: the ai branch answers 201 without scheduling the responder
InitiateMessageSavedUnscheduled(p) ==
    /\ p.pc = "initMsgSave"
    /\ messages' = Append(messages, p.msg)
    /\ out' = [NoOut EXCEPT
                 !.resp = Resp("initiate", p.user, p.sid, 201),
                 !.saved = p.msg,
                 !.emits = IF p.doubtType = "trainer"
                           THEN <<[ev |-> "newDoubtSession", room |-> p.trainer, sid |-> p.sid]>>
                           ELSE <<>>]
    /\ procs' = procs \ {p}
    /\ UNCHANGED <<sessions, now, faults, lim, office>>

\* initialChatMessage.save() lands; the trainer is notified or the responder
\* is scheduled, and the request is answered 201
InitiateMessageSaved(p) ==
    /\ p.pc = "initMsgSave"
    /\ messages' = Append(messages, p.msg)
    /\ out' = [NoOut EXCEPT
                 !.resp = Resp("initiate", p.user, p.sid, 201),
                 !.saved = p.msg,
                 !.emits = IF p.doubtType = "trainer"
                           THEN <<[ev |-> "newDoubtSession", room |-> p.trainer, sid |-> p.sid]>>
                           ELSE <<>>]
    /\ procs' = IF p.doubtType = "trainer"
                THEN procs \ {p}
                ELSE (procs \ {p}) \cup
                     {[p EXCEPT !.op = "initResponder", !.pc = "timerWait", !.msg = NoMsg]}
    /\ UNCHANGED <<sessions, now, faults, lim, office>>

\* ------------------------------------------ isParticipantInDoubtSession
GuardNext == 0
GuardNextNoDoc == 1

\* the middleware's outcome: next() with req.doubtSession set, next() without
\* it (admin), or the status it answers with
ParticipantGuard(u, sid) ==
    IF Role(u) = "admin" THEN GuardNextNoDoc
    ELSE IF ~Exists(sid) THEN 404
    ELSE IF ~IsParticipant(sessions[sid], u) THEN 403
    ELSE GuardNext

\* req.doubtSession as loaded by the middleware
Load(sid) ==
    [doubtType |-> sessions[sid].doubtType, student |-> sessions[sid].student,
     trainer |-> sessions[sid].trainer, session |-> sessions[sid].session,
     initialDoubtText |-> sessions[sid].initialDoubtText,
     status |-> sessions[sid].status, orig |-> sessions[sid].status, lma |-> 0]

\* ---------------------------------------------- getDoubtSessionMessages
\* the status the read is answered with; a 200 carries FindMessages(sid)
GetCheck(u, sid) ==
    LET g == ParticipantGuard(u, sid) IN
    IF g \in {GuardNext, GuardNextNoDoc} THEN 200 ELSE g

\* a read: nothing is stored, emitted or scheduled whatever the answer
GetDoubtSessionMessages(u, sid) ==
    /\ GetCheck(u, sid) \in {200, 403, 404}
    /\ UNCHANGED vars

\* ---------------------------------------------- getTrainerDoubtSessions
\* the statuses the query selects; 'open' is no value of the status enum
ListedStatuses == {"pending", "open"}

\* isTrainerOrAdmin: 0 when the request is let through
TrainerOrAdminCheck(u) ==
    IF Role(u) \in {"trainer", "admin", "principal"} THEN 0 ELSE 403

\* DoubtSession.find({trainer, status: {$in: [...]}}): the sessions a 200
\* carries
FindTrainerSessions(u) ==
    {sid \in 1..Len(sessions) :
        /\ sessions[sid].trainer = u
        /\ sessions[sid].status \in ListedStatuses}

\* a read: nothing is stored; a request let through is answered 200 with
\* FindTrainerSessions(u)
GetTrainerDoubtSessions(u) ==
    IF TrainerOrAdminCheck(u) # 0 THEN Reject ELSE UNCHANGED vars

\* ------------------------------------------------------ sendDoubtMessage
\* variant: the body is not looked at
SendCheckAnyBody(u, sid, text, att) ==
    LET g == ParticipantGuard(u, sid) IN
    IF g \notin {GuardNext, GuardNextNoDoc} THEN g
    ELSE IF g = GuardNextNoDoc THEN 500
    ELSE IF SendBlocked(sessions[sid].status)
            /\ ~CanReopen(sessions[sid].doubtType, Role(u)) THEN 400
    ELSE 0

\* variant: a body with both a text and an attachment is refused too
SendCheckExactlyOne(u, sid, text, att) ==
    LET g == ParticipantGuard(u, sid) IN
    IF g \notin {GuardNext, GuardNextNoDoc} THEN g
    ELSE IF Truthy(text) = Truthy(att) THEN 400
    ELSE IF g = GuardNextNoDoc THEN 500
    ELSE IF SendBlocked(sessions[sid].status)
            /\ ~CanReopen(sessions[sid].doubtType, Role(u)) THEN 400
    ELSE 0

\* the handler's outcome before anything is stored: 0 to go on, else the status
SendCheck(u, sid, text, att) ==
    LET g == ParticipantGuard(u, sid) IN
    IF g \notin {GuardNext, GuardNextNoDoc} THEN g
    ELSE IF ~Truthy(text) /\ ~Truthy(att) THEN 400
    ELSE IF g = GuardNextNoDoc THEN 500
    ELSE IF SendBlocked(sessions[sid].status)
            /\ ~CanReopen(sessions[sid].doubtType, Role(u)) THEN 400
    ELSE 0

SendDoubtMessage(u, sid, text, att) ==
    IF SendCheck(u, sid, text, att) # 0 THEN Reject
    ELSE
        /\ CanAccept
        /\ UserMsgCount < lim.msgs
        /\ LET doc == Load(sid)
               msg == NewChatMessage(sid, u, Role(u), text, att, now)
           IN procs' = procs \cup
                 {IF SendBlocked(doc.status)
                  THEN Proc(now, "send", u, sid, "reopenSave",
                            [doc EXCEPT !.status = "in_progress", !.lma = now],
                            [msg EXCEPT !.createdAt = 0])
                  ELSE Proc(now, "send", u, sid, "msgSave", doc, msg)}
        /\ now' = now + 1
        /\ out' = NoOut
        /\ UNCHANGED <<sessions, messages, faults, lim, office>>

\* the reopening doubtSession.save() lands; the ChatMessage is built and saved
SendReopenSaved(p) ==
    /\ p.pc = "reopenSave"
    /\ sessions' = [sessions EXCEPT ![p.sid] = SaveDoc(@, p)]
    /\ procs' = (procs \ {p}) \cup
                {[p EXCEPT !.pc = "msgSave", !.orig = p.status, !.lma = 0,
                           !.msg.createdAt = now]}
    /\ out' = [NoOut EXCEPT !.write =
                 Write(p.sid, sessions[p.sid].status, sessions'[p.sid].status, p)]
    /\ now' = now + 1
    /\ UNCHANGED <<messages, faults, lim, office>>

\* variant: a message never escalates the status
StatusAfterMessageUnchanged(role, status) == status

\* the status held in memory after a message of a sender with this role:
\* a trainer's message escalates pending
StatusAfterMessage(role, status) ==
    IF role = "trainer" /\ status = "pending" THEN "in_progress" ELSE status

\* chatMessage.save() lands; lastMessageAt is bumped and a trainer's first
\* reply escalates pending, then doubtSession.save() is called
SendMessageSaved(p) ==
    /\ p.pc = "msgSave"
    /\ messages' = Append(messages, p.msg)
    /\ procs' = (procs \ {p}) \cup
                {[p EXCEPT !.pc = "sessSave", !.lma = now,
                           !.status = StatusAfterMessage(Role(p.user), p.status)]}
    /\ out' = [NoOut EXCEPT !.saved = p.msg]
    /\ now' = now + 1
    /\ UNCHANGED <<sessions, faults, lim, office>>

\* doubtSession.save() lands; the stored message is read back
SendSessionSaved(p) ==
    /\ p.pc = "sessSave"
    /\ sessions' = [sessions EXCEPT ![p.sid] = SaveDoc(@, p)]
    /\ procs' = (procs \ {p}) \cup {[p EXCEPT !.pc = "populate", !.orig = p.status, !.lma = 0]}
    /\ out' = [NoOut EXCEPT !.write =
                 Write(p.sid, sessions[p.sid].status, sessions'[p.sid].status, p)]
    /\ UNCHANGED <<messages, now, faults, lim, office>>

\* the read returns: newMessage to the session room and newNotification to the
\* student for a trainer's message; a student's message on an ai session goes
\* on to read the conversation history, any other request is answered 201
SendPopulated(p) ==
    /\ p.pc = "populate"
    /\ LET ai == p.doubtType = "ai" /\ Role(p.user) = "student" IN
       /\ out' = [NoOut EXCEPT
                    !.resp = IF ai THEN NoResp ELSE Resp("send", p.user, p.sid, 201),
                    !.emits = <<[ev |-> "newMessage", room |-> p.sid, msg |-> p.msg]>>
                              \o (IF Role(p.user) = "trainer"
                                  THEN <<[ev |-> "newNotification", room |-> p.student,
                                          sid |-> p.sid]>>
                                  ELSE <<>>)]
       /\ procs' = IF ai THEN (procs \ {p}) \cup {[p EXCEPT !.pc = "history"]}
                         ELSE procs \ {p}
    /\ UNCHANGED <<sessions, messages, now, faults, lim, office>>

\* variant: the request awaits the answer: the ai message is stored before
\* the 201 is sent and no timer is left behind
SendHistoryReadAwaitsAnswer(p) ==
    /\ p.pc = "history"
    /\ messages' = Append(messages, NewChatMessage(p.sid, NULL, "ai", "answer", NULL, now))
    /\ out' = [NoOut EXCEPT !.resp = Resp("send", p.user, p.sid, 201)]
    /\ procs' = procs \ {p}
    /\ now' = now + 1
    /\ UNCHANGED <<sessions, faults, lim, office>>

\* the history read returns (its result is not used by the simulated answer):
\* the follow-up responder is scheduled and the request answered 201
SendHistoryRead(p) ==
    /\ p.pc = "history"
    /\ out' = [NoOut EXCEPT !.resp = Resp("send", p.user, p.sid, 201)]
    /\ procs' = (procs \ {p}) \cup
                   {[p EXCEPT !.op = "followResponder", !.pc = "timerWait", !.msg = NoMsg]}
    /\ UNCHANGED <<sessions, messages, now, faults, lim, office>>

\* ----------------------------------------------------- closeDoubtSession
CloseCheck(u, sid) ==
    LET g == ParticipantGuard(u, sid) IN
    IF g \notin {GuardNext, GuardNextNoDoc} THEN g
    ELSE IF g = GuardNextNoDoc THEN 500
    ELSE IF CloseBlocked(sessions[sid].status) THEN 400
    ELSE IF Role(u) # "admin" /\ ~IsParticipant(sessions[sid], u) THEN 403
    ELSE 0

\* (two closes by one user that loaded the same status are one process here)
CloseDoubtSession(u, sid) ==
    IF CloseCheck(u, sid) # 0 THEN Reject
    ELSE
        /\ CanAccept
        /\ procs' = procs \cup
              {Proc(0, "close", u, sid, "closeSave", [Load(sid) EXCEPT !.status = "closed"], NoMsg)}
        /\ out' = NoOut
        /\ UNCHANGED <<sessions, messages, now, faults, lim, office>>

\* doubtSession.save() lands; doubtSessionClosed goes to the session room
CloseSaved(p) ==
    /\ p.pc = "closeSave"
    /\ sessions' = [sessions EXCEPT ![p.sid] = SaveDoc(@, p)]
    /\ out' = [NoOut EXCEPT
                 !.resp = Resp("close", p.user, p.sid, 200),
                 !.write = Write(p.sid, sessions[p.sid].status, sessions'[p.sid].status, p),
                 !.emits = <<[ev |-> "doubtSessionClosed", room |-> p.sid, status |-> "closed"]>>]
    /\ procs' = procs \ {p}
    /\ UNCHANGED <<messages, now, faults, lim, office>>

\* ------------------------------------------------ catch (error) -> 500
\* the storage operation a handler awaits inside its try block rejects: the
\* catch block answers 500 and the request ends; what it stored stays stored
\* (getIo() does not throw: the server initialises io before it listens)
RequestSaveFails(p) ==
    /\ p.pc \in RequestPcs
    /\ faults < lim.faults
    /\ faults' = faults + 1
    /\ procs' = procs \ {p}
    /\ out' = [NoOut EXCEPT !.resp = Resp(p.op, p.user, p.sid, 500), !.thrown = Thrown(p)]
    /\ UNCHANGED <<sessions, messages, now, lim, office>>

\* --------------------------------------------------- simulated responder
AiMessage(sid, at) == NewChatMessage(sid, NULL, "ai", "answer", NULL, at)
ErrorMessage(sid, at) == NewChatMessage(sid, NULL, "system", "error", NULL, at)

\* variant: a timer that ends without an answer when the session was closed
\* in the meantime
ResponderFiresUnlessClosed(p) ==
    /\ p.pc = "timerWait"
    /\ procs' = IF sessions[p.sid].status = "closed"
                THEN procs \ {p}
                ELSE (procs \ {p}) \cup
                     {[p EXCEPT !.pc = "aiMsgSave", !.msg = AiMessage(p.sid, now)]}
    /\ now' = now + 1
    /\ out' = NoOut
    /\ UNCHANGED <<sessions, messages, faults, lim, office>>

\* the timer fires: the answer is built and aiChatMessage.save() is called
ResponderFires(p) ==
    /\ p.pc = "timerWait"
    /\ procs' = (procs \ {p}) \cup {[p EXCEPT !.pc = "aiMsgSave", !.msg = AiMessage(p.sid, now)]}
    /\ now' = now + 1
    /\ out' = NoOut
    /\ UNCHANGED <<sessions, messages, faults, lim, office>>

\* aiChatMessage.save() lands; status and lastMessageAt are set on the
\* captured document and doubtSession.save() is called
ResponderMessageSaved(p) ==
    /\ p.pc = "aiMsgSave"
    /\ messages' = Append(messages, p.msg)
    /\ procs' = (procs \ {p}) \cup
                {[p EXCEPT !.pc = "aiSessSave", !.status = ResponderStatus, !.lma = now]}
    /\ out' = [NoOut EXCEPT !.saved = p.msg]
    /\ now' = now + 1
    /\ UNCHANGED <<sessions, faults, lim, office>>

\* a save inside the try block throws: the catch block builds the system
\* message and saves it
ResponderSaveFails(p) ==
    /\ p.pc \in {"aiMsgSave", "aiSessSave"}
    /\ faults < lim.faults
    /\ faults' = faults + 1
    /\ procs' = (procs \ {p}) \cup {[p EXCEPT !.pc = "errMsgSave", !.msg = ErrorMessage(p.sid, now)]}
    /\ now' = now + 1
    /\ out' = NoOut
    /\ UNCHANGED <<sessions, messages, lim, office>>

\* doubtSession.save() lands; the answer goes to the session room
ResponderSessionSaved(p) ==
    /\ p.pc = "aiSessSave"
    /\ sessions' = [sessions EXCEPT ![p.sid] = SaveDoc(@, p)]
    /\ out' = [NoOut EXCEPT
                 !.write = Write(p.sid, sessions[p.sid].status, sessions'[p.sid].status, p),
                 !.emits = <<[ev |-> "newMessage", room |-> p.sid, msg |-> p.msg]>>]
    /\ procs' = procs \ {p}
    /\ UNCHANGED <<messages, now, faults, lim, office>>

\* errorChatMessage.save() lands and is emitted; the initial responder then
\* cancels the session, the follow-up responder ends
ResponderErrorSaved(p) ==
    /\ p.pc = "errMsgSave"
    /\ messages' = Append(messages, p.msg)
    /\ out' = [NoOut EXCEPT
                 !.saved = p.msg,
                 !.emits = <<[ev |-> "newMessage", room |-> p.sid, msg |-> p.msg]>>]
    /\ IF p.op = "initResponder"
       THEN /\ procs' = (procs \ {p}) \cup
                        {[p EXCEPT !.pc = "cancelSave", !.status = "cancelled", !.lma = now]}
            /\ now' = now + 1
       ELSE /\ procs' = procs \ {p}
            /\ now' = now
    /\ UNCHANGED <<sessions, faults, lim, office>>

\* the cancelling doubtSession.save() lands
ResponderCancelSaved(p) ==
    /\ p.pc = "cancelSave"
    /\ sessions' = [sessions EXCEPT ![p.sid] = SaveDoc(@, p)]
    /\ out' = [NoOut EXCEPT !.write =
                 Write(p.sid, sessions[p.sid].status, sessions'[p.sid].status, p)]
    /\ procs' = procs \ {p}
    /\ UNCHANGED <<messages, now, faults, lim, office>>

\* ------------------------------------------- socket.on('sendMessage')
\* what a connected client may put in a 'sendMessage' event: any object; one
\* that names session 1 and claims to come from the trainer, and one that
\* names no session (doubtSession 0: falsy)
ClientMessages ==
    { NewChatMessage(1, "t1", "trainer", "typed", NULL, 0),
      NewChatMessage(0, "t1", "trainer", "typed", NULL, 0) }

\* the event is relayed to the room it names as newMessage; nothing is
\* stored and the sender is not checked; without a room it is only logged
SocketSendMessage(m) ==
    IF m.doubtSession # 0
    THEN /\ out' = [NoOut EXCEPT
                      !.emits = <<[ev |-> "newMessage", room |-> m.doubtSession, msg |-> m]>>]
         /\ UNCHANGED <<sessions, messages, procs, now, faults, lim, office>>
    ELSE UNCHANGED vars

\* -------------------------------------------------- trainer attendance
\* an attendance or assignment request in flight: the handler, where it
\* stands, the document it works on and what its body asked for
Handler(op, u, key, action, pc) ==
    [op |-> op, user |-> u, key |-> key, action |-> action, pc |-> pc]

KeyOf(u, d) == <<u, d>>

HandlerRoom == Cardinality(handlers) < lim.inflight

VerifyActions == {"Approved", "Rejected", "Later"}
ReviewActions == {"approve", "reject", "later"}
RequestTypes == {"lateArrival", "absence"}

\* isAdmin: 0 when the request is let through
AdminCheck(u) == IF Role(u) = "admin" THEN 0 ELSE 403

\* markTrainerAttendance up to the findOne: 0 when the record is to be saved
MarkCheck(u, d, complete) ==
    IF TrainerOrAdminCheck(u) # 0 THEN 403
    ELSE IF ~complete THEN 400
    ELSE IF attendance[KeyOf(u, d)] # NoAttendance THEN 409
    ELSE 0

MarkTrainerAttendance(u, d, complete) ==
    IF MarkCheck(u, d, complete) # 0 THEN Reject
    ELSE
        /\ HandlerRoom
        /\ handlers' = handlers \cup {Handler("mark", u, KeyOf(u, d), "Pending", "markSave")}
        /\ out' = NoOut
        /\ UNCHANGED <<doubt, attendance, attendanceRequests, assignedSessions, calls>>

\* newAttendance.save() lands: 201, or 500 when the unique index on trainer
\* and date refuses a second record
MarkSaved(h) ==
    /\ h.pc = "markSave"
    /\ handlers' = handlers \ {h}
    /\ IF attendance[h.key] # NoAttendance
       THEN /\ out' = [NoOut EXCEPT !.resp = Resp("mark", h.user, h.key[2], 500)]
            /\ UNCHANGED attendance
       ELSE /\ attendance' = [attendance EXCEPT ![h.key] =
                                 [status |-> "Pending", adminRemarks |-> "none"]]
            /\ out' = [NoOut EXCEPT !.resp = Resp("mark", h.user, h.key[2], 201)]
    /\ UNCHANGED <<doubt, attendanceRequests, assignedSessions, calls>>

\* requestTrainerAttendance up to the findOne
RequestCheck(u, d, requestType) ==
    IF TrainerOrAdminCheck(u) # 0 THEN 403
    ELSE IF ~Truthy(requestType) THEN 400
    ELSE IF Role(u) # "trainer" THEN 403
    ELSE IF attendanceRequests[KeyOf(u, d)] # NoRequest THEN 409
    ELSE 0

RequestTrainerAttendance(u, d, requestType) ==
    IF RequestCheck(u, d, requestType) # 0 THEN Reject
    ELSE
        /\ HandlerRoom
        /\ handlers' = handlers \cup
                         {Handler("request", u, KeyOf(u, d), requestType, "requestSave")}
        /\ out' = NoOut
        /\ UNCHANGED <<doubt, attendance, attendanceRequests, assignedSessions, calls>>

\* newRequest.save() lands: 201, or 500 on the unique index
RequestSaved(h) ==
    /\ h.pc = "requestSave"
    /\ handlers' = handlers \ {h}
    /\ IF attendanceRequests[h.key] # NoRequest
       THEN /\ out' = [NoOut EXCEPT !.resp = Resp("request", h.user, h.key[2], 500)]
            /\ UNCHANGED attendanceRequests
       ELSE /\ attendanceRequests' = [attendanceRequests EXCEPT ![h.key] =
                                 [requestType |-> h.action, status |-> "Pending"]]
            /\ out' = [NoOut EXCEPT !.resp = Resp("request", h.user, h.key[2], 201)]
    /\ UNCHANGED <<doubt, attendance, assignedSessions, calls>>

\* verifyTrainerAttendance up to the status check, on the record it loaded
VerifyCheck(u, key, action) ==
    IF AdminCheck(u) # 0 THEN 403
    ELSE IF action \notin {"Approved", "Rejected"} THEN 400
    ELSE IF attendance[key] = NoAttendance THEN 404
    ELSE IF attendance[key].status # "Pending" THEN 400
    ELSE 0

VerifiedStatus(action) == IF action = "Approved" THEN "P" ELSE "A"

VerifyTrainerAttendance(u, key, action) ==
    IF VerifyCheck(u, key, action) # 0 THEN Reject
    ELSE
        /\ HandlerRoom
        /\ handlers' = handlers \cup {Handler("verify", u, key, action, "verifySave")}
        /\ out' = NoOut
        /\ UNCHANGED <<doubt, attendance, attendanceRequests, assignedSessions, calls>>

\* attendance.save() lands: status and the admin's remarks are written
VerifySaved(h) ==
    /\ h.pc = "verifySave"
    /\ attendance' = [attendance EXCEPT ![h.key] =
                         [status |-> VerifiedStatus(h.action), adminRemarks |-> "remarks"]]
    /\ handlers' = (handlers \ {h}) \cup {[h EXCEPT !.pc = "verifyNotify"]}
    /\ out' = NoOut
    /\ UNCHANGED <<doubt, attendanceRequests, assignedSessions, calls>>

\* Notification.create() lands and the request is answered 200
VerifyNotified(h) ==
    /\ h.pc = "verifyNotify"
    /\ handlers' = handlers \ {h}
    /\ out' = [NoOut EXCEPT !.resp = Resp("verify", h.user, h.key[2], 200)]
    /\ UNCHANGED <<doubt, attendance, attendanceRequests, assignedSessions, calls>>

\* reviewTrainerAttendanceRequest up to the status check
ReviewCheck(u, key, action) ==
    IF AdminCheck(u) # 0 THEN 403
    ELSE IF action \notin {"approve", "reject"} THEN 400
    ELSE IF attendanceRequests[key] = NoRequest THEN 404
    ELSE IF attendanceRequests[key].status # "Pending" THEN 400
    ELSE 0

\* the attendance status a reviewed request stands for
AttendanceStatus(action, requestType) ==
    IF action = "approve"
    THEN IF requestType \in {"lateArrival", "earlyDeparture"} THEN "P" ELSE "L"
    ELSE "A"

ReviewTrainerAttendanceRequest(u, key, action) ==
    IF ReviewCheck(u, key, action) # 0 THEN Reject
    ELSE
        /\ HandlerRoom
        /\ handlers' = handlers \cup {Handler("review", u, key, action, "reviewSave")}
        /\ out' = NoOut
        /\ UNCHANGED <<doubt, attendance, attendanceRequests, assignedSessions, calls>>

\* request.save() lands
ReviewSaved(h) ==
    /\ h.pc = "reviewSave"
    /\ attendanceRequests' = [attendanceRequests EXCEPT ![h.key].status =
                                 IF h.action = "approve" THEN "Approved" ELSE "Rejected"]
    /\ handlers' = (handlers \ {h}) \cup {[h EXCEPT !.pc = "reviewUpsert"]}
    /\ out' = NoOut
    /\ UNCHANGED <<doubt, attendance, assignedSessions, calls>>

\* findOneAndUpdate({trainer, date}, {$set: ...}, {upsert: true}): the record
\* of the day is created or overwritten
UpsertAttendance(old, status) ==
    [status |-> status, adminRemarks |-> "Request reviewed"]

ReviewUpserted(h) ==
    /\ h.pc = "reviewUpsert"
    /\ attendance' = [attendance EXCEPT ![h.key] =
           UpsertAttendance(@, AttendanceStatus(h.action, attendanceRequests[h.key].requestType))]
    /\ handlers' = (handlers \ {h}) \cup {[h EXCEPT !.pc = "reviewNotify"]}
    /\ out' = NoOut
    /\ UNCHANGED <<doubt, attendanceRequests, assignedSessions, calls>>

\* Notification.create() lands and the request is answered 200
ReviewNotified(h) ==
    /\ h.pc = "reviewNotify"
    /\ handlers' = handlers \ {h}
    /\ out' = [NoOut EXCEPT !.resp = Resp("review", h.user, h.key[2], 200)]
    /\ UNCHANGED <<doubt, attendance, attendanceRequests, assignedSessions, calls>>

AttendanceNext ==
    \/ \E u \in {"t1", "s1"}, d \in Days, c \in BOOLEAN : MarkTrainerAttendance(u, d, c)
    \/ \E h \in handlers : MarkSaved(h)
    \/ \E u \in {"t1", "s1"}, d \in Days, t \in RequestTypes \cup {""} :
          RequestTrainerAttendance(u, d, t)
    \/ \E h \in handlers : RequestSaved(h)
    \/ \E u \in {"a1", "t1"}, k \in Keys, a \in VerifyActions : VerifyTrainerAttendance(u, k, a)
    \/ \E h \in handlers : VerifySaved(h)
    \/ \E h \in handlers : VerifyNotified(h)
    \/ \E u \in {"a1", "t1"}, k \in Keys, a \in ReviewActions :
          ReviewTrainerAttendanceRequest(u, k, a)
    \/ \E h \in handlers : ReviewSaved(h)
    \/ \E h \in handlers : ReviewUpserted(h)
    \/ \E h \in handlers : ReviewNotified(h)

AttendanceSpec == Init /\ [][AttendanceNext]_vars

\* ------------------------------------------------------- assignSessions
\* request bodies for one grade and month: the school, the section and the
\* number of sessions listed
AssignInputs ==
    [school : {"GreenView", "Nowhere"}, section : {"Boys", "Girls", "Both", "All"},
     sessions : {0, 1}]

\* the sections an AssignedSession document is stored for
Assigned == {a.section : a \in assignedSessions}

\* the validation and the school lookup: 0 when the request goes on
AssignCheck(u, in) ==
    IF AdminCheck(u) # 0 THEN 403
    ELSE IF in.sessions = 0 THEN 400
    ELSE IF in.section \notin {"Boys", "Girls", "Both"} THEN 400
    ELSE IF in.school \notin SchoolRecords THEN 404
    ELSE 0

AssignSessions(u, in) ==
    IF AssignCheck(u, in) # 0 THEN Reject
    ELSE
        /\ HandlerRoom
        /\ Len(calls) < MaxCalls
        /\ calls' = Append(calls, in.section)
        /\ handlers' = handlers \cup
              {Handler("assign", u, Len(calls) + 1, in.section,
                       IF in.section = "Both" THEN "findBoys" ELSE "findOne")}
        /\ out' = NoOut
        /\ UNCHANGED <<doubt, attendance, attendanceRequests, assignedSessions>>

\* the request is answered and ends
AssignAnswered(h, code) ==
    /\ handlers' = handlers \ {h}
    /\ out' = [NoOut EXCEPT !.resp = Resp("assign", h.user, h.key, code)]

\* new AssignedSession({...}).save(): the unique index on school, grade,
\* section and month refuses a second document (code 11000 -> 400) and what
\* was stored stays stored; a save that lands is followed by the next save
\* or by the 201
SaveAssignment(h, section) ==
    IF section \in Assigned
    THEN /\ UNCHANGED assignedSessions
         /\ AssignAnswered(h, 400)
    ELSE /\ assignedSessions' = assignedSessions \cup {[section |-> section, by |-> h.key]}
         /\ IF h.pc = "saveBoys"
            THEN /\ handlers' = (handlers \ {h}) \cup {[h EXCEPT !.pc = "saveGirls"]}
                 /\ out' = NoOut
            ELSE AssignAnswered(h, 201)

\* section Both: findOne for the Boys assignment returns
AssignBoysRead(h) ==
    /\ h.pc = "findBoys"
    /\ handlers' = (handlers \ {h}) \cup
          {[h EXCEPT !.pc = IF "Boys" \in Assigned THEN "findGirlsBoysExist" ELSE "findGirls"]}
    /\ out' = NoOut
    /\ UNCHANGED <<doubt, attendance, attendanceRequests, assignedSessions, calls>>

\* section Both: findOne for the Girls assignment returns; 400 when either
\* exists, else both documents are built and the first save is called
AssignGirlsRead(h) ==
    /\ h.pc \in {"findGirls", "findGirlsBoysExist"}
    /\ IF h.pc = "findGirlsBoysExist" \/ "Girls" \in Assigned
       THEN AssignAnswered(h, 400)
       ELSE /\ handlers' = (handlers \ {h}) \cup {[h EXCEPT !.pc = "saveBoys"]}
            /\ out' = NoOut
    /\ UNCHANGED <<doubt, attendance, attendanceRequests, assignedSessions, calls>>

\* section Both: newBoysAssignment.save() returns
AssignBoysSaved(h) ==
    /\ h.pc = "saveBoys"
    /\ SaveAssignment(h, "Boys")
    /\ UNCHANGED <<doubt, attendance, attendanceRequests, calls>>

\* section Both: newGirlsAssignment.save() returns
AssignGirlsSaved(h) ==
    /\ h.pc = "saveGirls"
    /\ SaveAssignment(h, "Girls")
    /\ UNCHANGED <<doubt, attendance, attendanceRequests, calls>>

\* section Boys or Girls: findOne returns
AssignOneRead(h) ==
    /\ h.pc = "findOne"
    /\ IF h.action \in Assigned
       THEN AssignAnswered(h, 400)
       ELSE /\ handlers' = (handlers \ {h}) \cup {[h EXCEPT !.pc = "saveOne"]}
            /\ out' = NoOut
    /\ UNCHANGED <<doubt, attendance, attendanceRequests, assignedSessions, calls>>

\* section Boys or Girls: assignedSession.save() returns
AssignOneSaved(h) ==
    /\ h.pc = "saveOne"
    /\ SaveAssignment(h, h.action)
    /\ UNCHANGED <<doubt, attendance, attendanceRequests, calls>>

AssignNext ==
    \/ \E u \in {"a1", "t1"}, in \in AssignInputs : AssignSessions(u, in)
    \/ \E h \in handlers : AssignBoysRead(h)
    \/ \E h \in handlers : AssignGirlsRead(h)
    \/ \E h \in handlers : AssignBoysSaved(h)
    \/ \E h \in handlers : AssignGirlsSaved(h)
    \/ \E h \in handlers : AssignOneRead(h)
    \/ \E h \in handlers : AssignOneSaved(h)

AssignSpec == Init /\ [][AssignNext]_vars

\* ------------------------------------------------------- specification
\* a storage operation of a process in flight lands, or its timer fires
ProcStep ==
    \E p \in procs :
        \/ InitiateSessionSaved(p)
        \/ InitiateMessageSaved(p)
        \/ SendReopenSaved(p)
        \/ SendMessageSaved(p)
        \/ SendSessionSaved(p)
        \/ SendPopulated(p)
        \/ SendHistoryRead(p)
        \/ CloseSaved(p)
        \/ ResponderFires(p)
        \/ ResponderMessageSaved(p)
        \/ ResponderSessionSaved(p)
        \/ ResponderErrorSaved(p)
        \/ ResponderCancelSaved(p)

Next ==
    \/ \E u \in Users, in \in {i \in InitiateInputs : i.att \in lim.atts} :
          InitiateDoubtSession(u, in)
    \/ \E p \in procs : InitiateSessionSaved(p)
    \/ \E p \in procs : InitiateMessageSaved(p)
    \/ \E u \in Users, sid \in 1..lim.sessions : GetDoubtSessionMessages(u, sid)
    \/ \E u \in Users : GetTrainerDoubtSessions(u)
    \/ \E u \in Users, sid \in 1..lim.sessions, x \in Texts, a \in lim.atts :
          SendDoubtMessage(u, sid, x, a)
    \/ \E p \in procs : SendReopenSaved(p)
    \/ \E p \in procs : SendMessageSaved(p)
    \/ \E p \in procs : SendSessionSaved(p)
    \/ \E p \in procs : SendPopulated(p)
    \/ \E p \in procs : SendHistoryRead(p)
    \/ \E u \in Users, sid \in 1..lim.sessions : CloseDoubtSession(u, sid)
    \/ \E p \in procs : CloseSaved(p)
    \/ \E p \in procs : RequestSaveFails(p)
    \/ \E p \in procs : ResponderFires(p)
    \/ \E p \in procs : ResponderMessageSaved(p)
    \/ \E p \in procs : ResponderSaveFails(p)
    \/ \E p \in procs : ResponderSessionSaved(p)
    \/ \E p \in procs : ResponderErrorSaved(p)
    \/ \E p \in procs : ResponderCancelSaved(p)
    \/ \E m \in ClientMessages : SocketSendMessage(m)

Spec == Init /\ [][Next]_vars

\* every storage operation in flight completes and every timer set fires
FairSpec == Spec /\ WF_vars(ProcStep)

\* an awaited storage operation of a request in flight lands; timers are left
\* out: nothing here makes a responder run fire
RequestStep ==
    \E p \in procs :
        \/ InitiateSessionSaved(p)
        \/ InitiateMessageSaved(p)
        \/ SendReopenSaved(p)
        \/ SendMessageSaved(p)
        \/ SendSessionSaved(p)
        \/ SendPopulated(p)
        \/ SendHistoryRead(p)
        \/ CloseSaved(p)

\* every storage operation a request awaits completes; a timer may fire late
\* or never
DetachedSpec == Spec /\ WF_vars(RequestStep)

\* the same program with request bodies that may carry an attachment, one
\* request at a time (responder timers run alongside)
AttInit == InitWith(Limits(MaxSessions, MaxUserMsgs, MaxInFlight - 1, MaxFaults, Attachments))

AttSpec == AttInit /\ [][Next]_vars

\* ------------------------------------- two participants writing at once
\* a trainer doubt after the trainer's first reply (a state Spec reaches, see
\* ConcInitReached): s1 asked at 2, t1 answered at 3, the session is
\* in_progress; there is room for two more messages and no storage fault
ConcSession ==
    [student |-> "s1", trainer |-> "t1", session |-> "topic1", initialDoubtText |-> "q",
     doubtType |-> "trainer", status |-> "in_progress", lastMessageAt |-> 4]

ConcMessages ==
    << NewChatMessage(1, "s1", "student", "q", NULL, 2),
       NewChatMessage(1, "t1", "trainer", "q", NULL, 3) >>

ConcInit ==
    /\ sessions = <<ConcSession>>
    /\ messages = ConcMessages
    /\ procs = {}
    /\ now = 5
    /\ faults = 0
    /\ out = NoOut
    /\ lim = Limits(MaxSessions, MaxUserMsgs + 2, MaxInFlight, 0, {NULL})
    /\ OfficeInit

\* the requests on an existing trainer session and their continuations
ConcStep ==
    \E p \in procs :
        \/ SendMessageSaved(p)
        \/ SendSessionSaved(p)
        \/ SendPopulated(p)
        \/ CloseSaved(p)

ConcNext ==
    \/ \E u \in Users, sid \in 1..lim.sessions : GetDoubtSessionMessages(u, sid)
    \/ \E u \in Users, sid \in 1..lim.sessions, x \in Texts, a \in lim.atts :
          SendDoubtMessage(u, sid, x, a)
    \/ \E p \in procs : SendMessageSaved(p)
    \/ \E p \in procs : SendSessionSaved(p)
    \/ \E p \in procs : SendPopulated(p)
    \/ \E u \in Users, sid \in 1..lim.sessions : CloseDoubtSession(u, sid)
    \/ \E p \in procs : CloseSaved(p)

\* every storage operation in flight completes
ConcSpec == ConcInit /\ [][ConcNext]_vars /\ WF_vars(ConcStep)

\* ---------------------------------------------------------------- claims
Terminal == {"closed", "cancelled"}

\* the edges of the status machine
Edges ==
    { <<"pending", "in_progress">>, <<"pending", "closed">>, <<"pending", "cancelled">>,
      <<"in_progress", "resolved">>, <<"in_progress", "closed">>,
      <<"in_progress", "cancelled">>, <<"resolved", "closed">>,
      <<"resolved", "in_progress">> }

Stored == 1..Len(sessions)

Admins == {u \in Users : Role(u) = "admin"}

\* the users a session names: its student and, when assigned, its trainer
Named(sid) == {sessions[sid].student} \cup ({sessions[sid].trainer} \ {NULL})

Persisted(m) == \E k \in 1..Len(messages) : messages[k] = m

\* C1: every change of a session's stored status follows an edge of the
\* status machine, and resolved -> in_progress is taken only by a student's
\* message on an ai session.
C1_StatusFollowsEdges ==
    (out.write.from # "none" /\ out.write.from # out.write.to) =>
        /\ <<out.write.from, out.write.to>> \in Edges
        /\ (out.write.from = "resolved" /\ out.write.to = "in_progress") =>
              (sessions[out.write.sid].doubtType = "ai" /\ out.write.pc = "reopenSave")

\* C2: closed and cancelled are terminal: no save changes a stored status
\* that is closed or cancelled, and no ChatMessage is stored for a session
\* whose status is closed or cancelled.
C2_TerminalIsFinal ==
    /\ out.write.from \in Terminal => out.write.to = out.write.from
    /\ out.saved # NoMsg => sessions[out.saved.doubtSession].status \notin Terminal

\* C3: sendDoubtMessage on a closed or cancelled session is refused for every
\* sender and session type; of the blocked statuses only resolved lets a
\* message through, for a student on an ai session.
C3_SendToTerminalFails ==
    \A sid \in Stored, u \in Users, x \in Texts, a \in Attachments :
        (SendBlocked(sessions[sid].status) /\ SendCheck(u, sid, x, a) = 0) =>
            /\ sessions[sid].status = "resolved"
            /\ sessions[sid].doubtType = "ai"
            /\ Role(u) = "student"

\* C4: a read, append or close by a user who is not admin and is neither the
\* session's student nor its trainer is answered 403, and no process ever
\* runs (stores, emits, answers 2xx) on behalf of such a user.
C4_NonParticipantForbidden ==
    /\ \A sid \in Stored : \A u \in Users \ (Admins \cup Named(sid)) :
          /\ GetCheck(u, sid) = 403
          /\ CloseCheck(u, sid) = 403
          /\ \A x \in Texts, a \in Attachments : SendCheck(u, sid, x, a) = 403
    /\ \A p \in procs : p.op \in {"send", "close", "followResponder"} => p.user \in Named(p.sid)
    /\ out.resp.op \in {"send", "close"} => out.resp.user \in Named(out.resp.sid)

C4_Witness ==
    \E sid \in Stored :
        /\ sessions[sid].doubtType = "ai"
        /\ sessions[sid].trainer = NULL
        /\ CloseCheck("t1", sid) = 403
        /\ SendCheck("s2", sid, "q", NULL) = 403
        /\ Len(messages) > 0

\* C5: an admin's close of a pending session is accepted (and then stores
\* closed and emits doubtSessionClosed).
C5_AdminClosesPending ==
    \A sid \in Stored, u \in Admins :
        sessions[sid].status = "pending" => CloseCheck(u, sid) = 0

C7_CloseClosedConflicts ==
    \A sid \in Stored : \A u \in Named(sid) \cup Admins :
        sessions[sid].status = "closed" => CloseCheck(u, sid) = 400

\* C8: an initiation stores one new DoubtSession, pending for a trainer doubt
\* and in_progress for an ai doubt, and when it is answered 201 it has stored
\* exactly one ChatMessage, from the student, with the initial doubt text.
C8_InitiateCreates ==
    /\ out.write.pc = "newSessSave" =>
          /\ out.write.sid = Len(sessions)
          /\ out.write.from = "none"
          /\ sessions[out.write.sid].doubtType = "trainer" => out.write.to = "pending"
          /\ sessions[out.write.sid].doubtType = "ai" => out.write.to = "in_progress"
          /\ sessions[out.write.sid].status = out.write.to
    /\ (out.resp.op = "initiate" /\ out.resp.code = 201) =>
          /\ out.resp.sid \in Stored
          /\ out.saved.doubtSession = out.resp.sid
          /\ out.saved.senderRole = "student"
          /\ out.saved.sender = sessions[out.resp.sid].student
          /\ out.saved.messageText = sessions[out.resp.sid].initialDoubtText
          /\ Cardinality({k \in 1..Len(messages) : messages[k] = out.saved}) = 1
          /\ Cardinality({k \in 1..Len(messages) :
                 /\ messages[k].doubtSession = out.resp.sid
                 /\ messages[k].createdAt <= out.saved.createdAt}) = 1

C8_Witness ==
    /\ out.resp.op = "initiate"
    /\ out.resp.code = 201
    /\ sessions[out.resp.sid].doubtType = "ai"
    /\ sessions[out.resp.sid].status = "in_progress"

\* the ai session sid has been touched by no request but its initiation
Untouched(sid) ==
    /\ sid \in Stored
    /\ sessions[sid].status # "closed"
    /\ \A p \in procs : p.sid = sid => p.op \in {"initiate", "initResponder"}
    /\ (\E p \in procs : p.sid = sid /\ p.op = "initiate") =>
          \A k \in 1..Len(messages) : messages[k].doubtSession # sid
    /\ Cardinality({k \in 1..Len(messages) :
          messages[k].doubtSession = sid /\ messages[k].senderRole \in {"student", "trainer"}}) <= 1

AiMessagesOf(sid) ==
    {k \in 1..Len(messages) : messages[k].doubtSession = sid /\ messages[k].senderRole = "ai"}

\* the responder's answer has just been stored, written and published
Answered(sid) ==
    /\ sid \in Stored
    /\ sessions[sid].status = "resolved"
    /\ Cardinality(AiMessagesOf(sid)) = 1
    /\ \A k \in AiMessagesOf(sid) :
          /\ messages[k].sender = NULL
          /\ out.emits = <<[ev |-> "newMessage", room |-> sid, msg |-> messages[k]]>>

AiSession(sid) == sid \in Stored /\ sessions[sid].doubtType = "ai"

\* C9: an ai session that no other request touches, and whose responder meets
\* no storage fault, stays in_progress while its responder runs, and its
\* responder eventually has stored exactly one ai message (sender null),
\* written resolved and published the message to the session room; from then
\* on it stays resolved with that one ai message.
C9_AiAnswered ==
    /\ [](\A sid \in 1..MaxSessions :
            (AiSession(sid) /\ Untouched(sid) /\ faults = 0) =>
                IF \E p \in procs : p.sid = sid
                THEN sessions[sid].status = "in_progress"
                ELSE sessions[sid].status = "resolved" /\ Cardinality(AiMessagesOf(sid)) = 1)
    /\ \A sid \in 1..MaxSessions :
          (AiSession(sid) /\ AiMessagesOf(sid) = {}) ~>
              (~Untouched(sid) \/ faults > 0 \/ Answered(sid))

C9_Witness ==
    \E sid \in Stored : AiSession(sid) /\ Untouched(sid) /\ faults = 0 /\ Answered(sid)

\* C10: a student's follow-up on an ai session loaded as resolved stores
\* in_progress before its message is stored, and the follow-up responder
\* stores resolved after its ai message is stored.
C10_FollowUpReopens ==
    /\ (out.write.pc = "reopenSave" /\ out.write.loaded = "resolved") =>
          /\ out.write.to = "in_progress"
          /\ sessions[out.write.sid].status = "in_progress"
          /\ \E p \in procs :
                /\ p.id = out.write.id
                /\ p.pc = "msgSave"
                /\ p.msg.senderRole = "student"
                /\ ~Persisted(p.msg)
    /\ (out.write.op = "followResponder" /\ out.write.pc = "aiSessSave") =>
          /\ out.write.to = "resolved"
          /\ sessions[out.write.sid].status = "resolved"
          /\ Len(out.emits) = 1
          /\ out.emits[1].msg.senderRole = "ai"
          /\ Persisted(out.emits[1].msg)

C10_Witness ==
    /\ out.write.op = "followResponder"
    /\ out.write.pc = "aiSessSave"
    /\ out.write.from = "in_progress"
    /\ out.write.to = "resolved"
    /\ \E k \in 1..Len(messages) :
          /\ messages[k].senderRole = "student"
          /\ messages[k].createdAt > 2

\* the events of the last step with this name
EmitsNamed(ev) == {k \in 1..Len(out.emits) : out.emits[k].ev = ev}

\* the user whose request made the last status write
Writer == {p.user : p \in {q \in procs : q.id = out.write.id /\ q.sid = out.write.sid}}

\* C11: when the assigned trainer's message on a session loaded as pending is
\* saved, the stored status becomes in_progress, and the message is followed
\* by exactly one newNotification to the student's personal room; a
\* student's message leaves a pending status as it is and emits no
\* newNotification.
C11_TrainerReplyEscalates ==
    /\ (out.write.pc = "sessSave" /\ out.write.loaded = "pending") =>
          \A u \in Writer :
             /\ Role(u) = "trainer" =>
                   /\ u = sessions[out.write.sid].trainer
                   /\ out.write.to = "in_progress"
                   /\ sessions[out.write.sid].status = "in_progress"
             /\ Role(u) = "student" =>
                   /\ out.write.to = out.write.from
                   /\ sessions[out.write.sid].status = out.write.from
    /\ (out.resp.op = "send" /\ out.resp.code = 201 /\ Role(out.resp.user) = "trainer") =>
          /\ Cardinality(EmitsNamed("newNotification")) = 1
          /\ \A n \in EmitsNamed("newNotification") :
                out.emits[n].room = sessions[out.resp.sid].student
    /\ EmitsNamed("newNotification") # {} =>
          (out.resp.op = "send" /\ Role(out.resp.user) = "trainer")

C11_Witness ==
    /\ out.write.pc = "sessSave"
    /\ out.write.from = "pending"
    /\ out.write.to = "in_progress"
    /\ Writer = {"t1"}
    /\ sessions[out.write.sid].student = "s1"

\* C12: whenever a responder run has failed and its system-role error message
\* is stored, for an initial and for a follow-up run alike, the run goes on
\* to store the status cancelled.
C12_ResponderFailureCancels ==
    out.saved.senderRole = "system" =>
        /\ Persisted(out.saved)
        /\ \E p \in procs :
              /\ p.sid = out.saved.doubtSession
              /\ p.op \in {"initResponder", "followResponder"}
              /\ p.pc = "cancelSave"
              /\ p.status = "cancelled"

\* C13: an initiateDoubtSession or sendDoubtMessage request that is answered
\* with an error after a storage fault has left nothing behind: no
\* DoubtSession of the failed initiation and no ChatMessage of the failed
\* request is stored.
C13_ErrorLeavesNothing ==
    (out.thrown.pc # "none" /\ out.resp.op \in {"initiate", "send"}) =>
        /\ out.resp.code = 500
        /\ out.resp.op = "initiate" => out.resp.sid \notin Stored
        /\ ~Persisted(out.thrown.msg)

\* a student whose profile names a school that has no school record
Unschooled == {u \in Users : Role(u) = "student" /\ Truthy(SchoolOf(u))
                                                 /\ SchoolOf(u) \notin SchoolRecords}

\* the preconditions of initiateDoubtSession, read off what a request left
PassedPreconditions(student, doubtType, trainer, topic, text) ==
    /\ Role(student) = "student"
    /\ SchoolOf(student) \in SchoolRecords
    /\ Truthy(text)
    /\ doubtType \in {"trainer", "ai"}
    /\ doubtType = "trainer" =>
          (trainer \in Users /\ Role(trainer) = "trainer" /\ topic \in Topics)

ConcInitReached ==
    /\ sessions = <<ConcSession>>
    /\ messages = ConcMessages
    /\ procs = {}
    /\ now = 5
    /\ faults = 0

\* the send of user u that built its ChatMessage at time t is in flight
Sending(u, t) == \E p \in procs : p.op = "send" /\ p.user = u /\ p.msg.createdAt = t

\* that send is answered 201 with its ChatMessage stored
Sent(u, t) ==
    /\ out.resp = Resp("send", u, 1, 201)
    /\ \E k \in EmitsNamed("newMessage") :
          /\ out.emits[k].msg.sender = u
          /\ out.emits[k].msg.createdAt = t
          /\ Persisted(out.emits[k].msg)

Ascending(s) == \A i, j \in 1..Len(s) : i < j => s[i].createdAt <= s[j].createdAt

\* C15: on an in_progress trainer session, every send the student or the
\* trainer has in flight, alone or together with the other's, is answered 201
\* with its ChatMessage stored whatever the order of the storage steps, and
\* the history read returns every stored message of the session, ordered by
\* createdAt, whatever the order the messages were stored and emitted in.
C15_ConcurrentAppends ==
    /\ [](\A sid \in 1..MaxSessions :
            sid \in Stored =>
               /\ Ascending(FindMessages(sid))
               /\ Len(FindMessages(sid)) = Len(MessagesOf(sid))
               /\ \A k \in 1..Len(messages) :
                     messages[k].doubtSession = sid =>
                        \E i \in 1..Len(FindMessages(sid)) : FindMessages(sid)[i] = messages[k])
    /\ \A u \in {"s1", "t1"}, t \in 5..8 : Sending(u, t) ~> Sent(u, t)

\* both wrote at once; the message built first was stored and emitted last
C15_Witness ==
    /\ procs = {}
    /\ Len(messages) = 4
    /\ {messages[3].sender, messages[4].sender} = {"s1", "t1"}
    /\ messages[3].createdAt > messages[4].createdAt
    /\ Len(out.emits) > 0
    /\ out.emits[1].msg = messages[4]
    /\ sessions[1].status = "in_progress"
    /\ FindMessages(1)[3] = messages[4]

\* C16: in every state a stored session has a trainer and a topic exactly
\* when its doubtType is trainer, an ai session has neither, and no step
\* changes the doubtType, the trainer, the student or the topic of a stored
\* session.
C16_TrainerIffTrainerType ==
    /\ [](\A sid \in 1..MaxSessions :
            sid \in Stored =>
               /\ sessions[sid].doubtType \in {"trainer", "ai"}
               /\ (sessions[sid].trainer # NULL /\ sessions[sid].session # NULL)
                     <=> sessions[sid].doubtType = "trainer"
               /\ sessions[sid].doubtType = "ai" =>
                     (sessions[sid].trainer = NULL /\ sessions[sid].session = NULL))
    /\ [][\A sid \in 1..Len(sessions) :
            /\ sessions'[sid].doubtType = sessions[sid].doubtType
            /\ sessions'[sid].trainer = sessions[sid].trainer
            /\ sessions'[sid].student = sessions[sid].student
            /\ sessions'[sid].session = sessions[sid].session]_vars

C16_Witness ==
    \E sid \in Stored :
        /\ sessions[sid].doubtType = "ai"
        /\ sessions[sid].trainer = NULL
        /\ sessions[sid].status = "resolved"
        /\ sessions[sid].lastMessageAt > 1
        /\ Len(messages) >= 2

HasContent(m) == Truthy(m.messageText) \/ Truthy(m.attachmentUrl)

\* C17: every ChatMessage stored or about to be stored, by initiate, by
\* sendDoubtMessage or by a responder, has a non-empty messageText or a
\* non-empty attachmentUrl, and a send with neither is refused for every user.
C17_MessageHasContent ==
    /\ \A k \in 1..Len(messages) : HasContent(messages[k])
    /\ \A p \in procs : p.msg # NoMsg => HasContent(p.msg)
    /\ out.saved # NoMsg => HasContent(out.saved)
    /\ \A sid \in Stored, u \in Users :
          /\ SendCheck(u, sid, "", NULL) # 0
          /\ SendCheck(u, sid, "", "") # 0
          /\ SendCheck(u, sid, NULL, NULL) # 0

\* a message that is an attachment with no text
C17_Witness ==
    \E k \in 1..Len(messages) :
        /\ ~Truthy(messages[k].messageText)
        /\ messages[k].attachmentUrl = "url"
        /\ messages[k].senderRole = "student"
        /\ SendCheck(messages[k].sender, messages[k].doubtSession, "", NULL) = 400

\* C18 (as claimed): every stored ChatMessage has exactly one of messageText
\* and attachmentUrl non-empty.
C18_ExactlyOneOfTextAndAttachment ==
    \A k \in 1..Len(messages) :
        Truthy(messages[k].messageText) # Truthy(messages[k].attachmentUrl)

\* C18 (amended): a send whose body carries both a text and an attachment is
\* accepted like one that carries either, a message stored for a user may
\* carry both, and a responder's message carries a text and no attachment.
C18_TextAndAttachmentMayBothBeSet ==
    /\ \A sid \in Stored : \A u \in Named(sid) :
          /\ SendCheck(u, sid, "q", "url") = SendCheck(u, sid, "q", NULL)
          /\ SendCheck(u, sid, "q", "url") = SendCheck(u, sid, "", "url")
    /\ \A k \in 1..Len(messages) :
          IF messages[k].senderRole \in {"ai", "system"}
          THEN Truthy(messages[k].messageText) /\ ~Truthy(messages[k].attachmentUrl)
          ELSE Truthy(messages[k].messageText) \/ Truthy(messages[k].attachmentUrl)

\* a student's follow-up that carries a text and an attachment is stored
C18_Witness ==
    \E k \in 1..Len(messages) :
        /\ k > 1
        /\ messages[k].senderRole = "student"
        /\ messages[k].messageText = "q"
        /\ messages[k].attachmentUrl = "url"

\* C19: no step takes a stored session whose status is not pending to the
\* status pending: once a session has left pending it is never pending again.
C19_NeverPendingAgain ==
    [][\A sid \in 1..Len(sessions) :
          sessions[sid].status # "pending" => sessions'[sid].status # "pending"]_vars

\* a request that loaded the session as pending saves it after a close landed
C19_Witness ==
    /\ out.write.loaded = "pending"
    /\ out.write.from = "closed"
    /\ out.write.to = "closed"
    /\ sessions[out.write.sid].status = "closed"

\* C20: every newMessage emitted to a session room carries a ChatMessage that
\* is stored for that session when it is emitted.
C20_EmittedMessageIsStored ==
    \A k \in EmitsNamed("newMessage") :
        /\ Persisted(out.emits[k].msg)
        /\ out.emits[k].msg.doubtSession = out.emits[k].room

\* the responder runs of a session, and those scheduled by its initiation
RespondersOf(sid) ==
    {p \in procs : p.sid = sid /\ p.op \in {"initResponder", "followResponder"}}

InitRespondersOf(sid) == {p \in procs : p.sid = sid /\ p.op = "initResponder"}

\* C21: an initiation answered 201 for a trainer session emits exactly one
\* newDoubtSession, to the personal room of the assigned trainer, and leaves
\* no responder run scheduled for the session; one answered 201 for an ai
\* session leaves exactly one responder run scheduled by it, waiting for its
\* timer, and emits no newDoubtSession. No other step emits newDoubtSession.
C21_InitiateSideEffects ==
    /\ (out.resp.op = "initiate" /\ out.resp.code = 201) =>
          LET sid == out.resp.sid IN
          /\ sessions[sid].doubtType = "trainer" =>
                /\ Cardinality(EmitsNamed("newDoubtSession")) = 1
                /\ \A n \in EmitsNamed("newDoubtSession") :
                      /\ out.emits[n].room = sessions[sid].trainer
                      /\ out.emits[n].sid = sid
                /\ RespondersOf(sid) = {}
          /\ sessions[sid].doubtType = "ai" =>
                /\ Cardinality(InitRespondersOf(sid)) = 1
                /\ \A p \in InitRespondersOf(sid) : p.pc = "timerWait"
                /\ EmitsNamed("newDoubtSession") = {}
    /\ EmitsNamed("newDoubtSession") # {} =>
          (out.resp.op = "initiate" /\ out.resp.code = 201)

\* s1's trainer doubt was answered 201 and t1's room was notified
C21_Witness ==
    /\ out.resp = Resp("initiate", "s1", 1, 201)
    /\ sessions[1].doubtType = "trainer"
    /\ out.emits = <<[ev |-> "newDoubtSession", room |-> "t1", sid |-> 1]>>
    /\ RespondersOf(1) = {}

\* s1's ai doubt was answered 201 and its responder run waits for the timer
C21_AiScheduled ==
    /\ out.resp = Resp("initiate", "s1", 1, 201)
    /\ sessions[1].doubtType = "ai"
    /\ Cardinality(InitRespondersOf(1)) = 1
    /\ out.emits = <<>>

\* C22: for a trainer, getTrainerDoubtSessions returns exactly the stored
\* sessions assigned to that trainer whose status is pending or in_progress.
C22_TrainerSeesActiveSessions ==
    \A u \in {v \in Users : Role(v) = "trainer"} :
        FindTrainerSessions(u) =
            {sid \in Stored : /\ sessions[sid].trainer = u
                              /\ sessions[sid].status \in {"pending", "in_progress"}}

\* the requests whose session save lands in this step
Landing == {p \in procs : /\ p.pc \in {"sessSave", "closeSave"}
                          /\ p.pc = out'.write.pc
                          /\ p.id = out'.write.id
                          /\ p.sid = out'.write.sid
                          /\ p.orig = out'.write.loaded
                          /\ p.op = "close" => p.user = out'.resp.user}

\* C23: a close and a reply that both loaded the session as pending both
\* complete (only a storage fault makes an accepted request fail), and the
\* stored status is the one written by the session save that landed last: a
\* close's save leaves closed whatever was stored, a trainer reply's save
\* leaves in_progress even over a closed status, a student reply's save leaves
\* the stored status as it is, and the status changes in no other way than
\* by a landing save.
C23_LastWriteWins ==
    [][/\ \A sid \in 1..Len(sessions) :
             sessions'[sid].status # sessions[sid].status =>
                /\ out'.write.sid = sid
                /\ out'.write.to = sessions'[sid].status
       /\ out'.write.loaded = "pending" =>
             \A p \in Landing :
                /\ p.op = "close" =>
                      /\ sessions'[p.sid].status = "closed"
                      /\ out'.resp = Resp("close", p.user, p.sid, 200)
                /\ (p.op = "send" /\ Role(p.user) = "trainer") =>
                      sessions'[p.sid].status = "in_progress"
                /\ (p.op = "send" /\ Role(p.user) = "student") =>
                      sessions'[p.sid].status = sessions[p.sid].status
       /\ (out'.resp.op \in {"close", "send"} /\ out'.resp.code \notin {200, 201}) =>
             out'.thrown # NoThrown
      ]_vars

\* the trainer's reply, loaded as pending, was saved after the close landed
C23_Witness ==
    /\ out.write.pc = "sessSave"
    /\ out.write.loaded = "pending"
    /\ out.write.from = "closed"
    /\ out.write.to = "in_progress"
    /\ Writer = {"t1"}
    /\ sessions[out.write.sid].status = "in_progress"

\* the close, loaded as pending, was saved after the trainer's reply landed
C23_CloseLandsLast ==
    /\ out.write.op = "close"
    /\ out.write.loaded = "pending"
    /\ out.write.from = "in_progress"
    /\ sessions[out.write.sid].status = "closed"

\* the responder runs of a session whose timer has not fired yet
Waiting(sid) == {p \in RespondersOf(sid) : p.pc = "timerWait"}

\* the messages of a session stored by responder runs
ResponderMessagesOf(sid) ==
    {k \in 1..Len(messages) : /\ messages[k].doubtSession = sid
                              /\ messages[k].senderRole \in {"ai", "system"}}

\* C24: a scheduled responder run is never cancelled. No step removes a run
\* that waits for its timer: it stays scheduled until it fires. While its
\* session is closed it still fires and stores a message; the session save of
\* a run writes resolved over whatever is stored, closed included, and
\* publishes the stored ai message to the session room.
C24_ResponderNeverCancelled ==
    /\ [][\A p \in procs :
             p.pc = "timerWait" =>
                \/ p \in procs'
                \/ [p EXCEPT !.pc = "aiMsgSave", !.msg = AiMessage(p.sid, now)] \in procs'
         ]_vars
    /\ [](out.write.pc = "aiSessSave" =>
             /\ sessions[out.write.sid].status = "resolved"
             /\ Len(out.emits) = 1
             /\ out.emits[1].ev = "newMessage"
             /\ out.emits[1].room = out.write.sid
             /\ out.emits[1].msg.senderRole = "ai"
             /\ Persisted(out.emits[1].msg))
    /\ \A sid \in 1..MaxSessions, n \in 0..MaxUserMsgs :
          (/\ sid \in Stored
           /\ sessions[sid].status = "closed"
           /\ Waiting(sid) # {}
           /\ Cardinality(ResponderMessagesOf(sid)) = n)
          ~> (Cardinality(ResponderMessagesOf(sid)) > n)

\* a responder run scheduled before the close saves the session after it:
\* closed is overwritten with resolved and the answer is published
C24_Witness ==
    /\ out.write.pc = "aiSessSave"
    /\ out.write.from = "closed"
    /\ out.write.to = "resolved"
    /\ sessions[out.write.sid].status = "resolved"
    /\ EmitsNamed("newMessage") # {}

\* a request on an ai session that has not been answered yet
AiRequestInFlight ==
    \E p \in procs : p.pc \in RequestPcs /\ p.doubtType = "ai" /\ p.op \in {"initiate", "send"}

\* C25: the responder runs detached from the request that scheduled it. The
\* step that answers 201 to an ai initiation or to a student's message on an
\* ai session leaves the run it scheduled waiting for its timer and stores no
\* responder message; and a request on an ai session is answered whether or
\* not any timer ever fires.
C25_ResponderDetached ==
    /\ [][(/\ out'.resp.code = 201
           /\ out'.resp.op \in {"initiate", "send"}
           /\ sessions'[out'.resp.sid].doubtType = "ai"
           /\ Role(out'.resp.user) = "student") =>
             /\ \E p \in procs' \ procs :
                   /\ p.pc = "timerWait"
                   /\ p.sid = out'.resp.sid
                   /\ p.user = out'.resp.user
                   /\ p.op = IF out'.resp.op = "initiate" THEN "initResponder"
                                                          ELSE "followResponder"
             /\ \A k \in 1..Len(messages') :
                   messages'[k].senderRole \in {"ai", "system"} =>
                      (k <= Len(messages) /\ messages[k] = messages'[k])
         ]_vars
    /\ AiRequestInFlight ~> ~AiRequestInFlight

\* the follow-up of s1 is answered 201 while the responder run of the
\* initiation and the one it scheduled itself both wait for their timers
C25_Witness ==
    /\ out.resp = Resp("send", "s1", 1, 201)
    /\ sessions[1].doubtType = "ai"
    /\ Cardinality(Waiting(1)) = 2
    /\ ResponderMessagesOf(1) = {}

\* the messages of a session stored for its student
StudentMessagesOf(sid) ==
    {k \in 1..Len(messages) : /\ messages[k].doubtSession = sid
                              /\ messages[k].senderRole = "student"}

\* nothing is in flight for the session: no request and no responder run
Quiescent(sid) == \A p \in procs : p.sid # sid

\* C26: in an ai session with no request in flight and no responder run
\* pending, the number of stored ai-role and system-role messages equals the
\* number of stored student messages: each student message got exactly one
\* responder message.
C26_OneAnswerPerQuestion ==
    \A sid \in Stored :
        (sessions[sid].doubtType = "ai" /\ Quiescent(sid)) =>
            Cardinality(ResponderMessagesOf(sid)) = Cardinality(StudentMessagesOf(sid))

\* C27: whenever no request and no responder run is in flight, the
\* lastMessageAt of every stored session is not earlier than the createdAt of
\* any stored message of that session.
C27_LastMessageAtCoversMessages ==
    procs = {} =>
        \A sid \in Stored : \A k \in 1..Len(messages) :
            messages[k].doubtSession = sid =>
                sessions[sid].lastMessageAt >= messages[k].createdAt

\* C28: of the close requests on a trainer session only the first to land
\* succeeds: a close is answered 200 and emits doubtSessionClosed only when
\* the stored session is not closed already, so at most one close succeeds
\* and at most one doubtSessionClosed is emitted.
C28_AtMostOneCloseSucceeds ==
    [][\A sid \in 1..Len(sessions) :
          (/\ sessions[sid].doubtType = "trainer"
           /\ sessions[sid].status = "closed") =>
             /\ ~(out'.resp.op = "close" /\ out'.resp.sid = sid /\ out'.resp.code = 200)
             /\ \A k \in 1..Len(out'.emits) :
                   ~(out'.emits[k].ev = "doubtSessionClosed" /\ out'.emits[k].room = sid)
      ]_vars

\* the records verifyTrainerAttendance has moved out of Pending and nothing
\* has written since
Verified(k) ==
    /\ attendance[k].status \in {"P", "A"}
    /\ attendance[k].adminRemarks = "remarks"

\* C29: no step changes the status of a TrainerAttendance record that
\* verifyTrainerAttendance has moved out of Pending, to P or to A.
C29_VerifiedStatusIsFinal ==
    [][\A k \in Keys : Verified(k) => attendance'[k].status = attendance[k].status]_vars

\* the sections of the documents an assignSessions request has stored
BuiltBy(r) == {a.section : a \in {b \in assignedSessions : b.by = r}}

\* the request has been answered
Returned(r) == r \in 1..Len(calls) /\ \A h \in handlers : ~(h.op = "assign" /\ h.key = r)

\* C30: once an assignSessions request with section Both has been answered,
\* either the Boys and the Girls assignment it built are both stored or it
\* has stored neither.
C30_BothIsAllOrNothing ==
    \A r \in 1..Len(calls) :
        (calls[r] = "Both" /\ Returned(r)) => BuiltBy(r) \in {{}, {"Boys", "Girls"}}

====
